---------------------------- MODULE Spec2Model ----------------------------
(***************************************************************************)
(* A model of the linked lists of bad_lists.                               *)
(*                                                                         *)
(*   fourth.rs  the doubly-linked List of Rc<RefCell<Node>> (Spec)         *)
(*   silly1.rs  the two-stack finger deque (SpecFinger, FairSpecFinger)    *)
(*                                                                         *)
(* fourth.rs is modelled statement by statement: every Rc is a counted     *)
(* reference into a heap of node slots, every RefCell has a borrow flag,   *)
(* and pc is the line the single caller is at.  silly1.rs owns its nodes   *)
(* through Box, so a Link is a value: <<>> for None and <<node>> for       *)
(* Some(Box(node)), with node.next again a Link.                           *)
(***************************************************************************)
EXTENDS Integers, Sequences, FiniteSets, Bags, TLC

\* ------------------------------------------------------------- bounds
\* Slots of the modelled heap (the longest doubly-linked list).
MaxNodes == 3
\* The elements pushed are 1..MaxElem.
MaxElem == 2
\* The most elements the finger deque holds.
MaxLen == 4

Elems == 1..MaxElem
NodeIds == 1..MaxNodes

\* Option<T>: None is <<>>, Some(x) is <<x>>.
None == <<>>
Some(x) == <<x>>

\* Link<T> of fourth.rs: None is the null slot 0, Some(rc) is the slot of the node.
NoNode == 0

VARIABLES
  \* fourth.rs
  heap,       \* slot -> the RcBox<RefCell<Node>> allocated there
  head,       \* List.head
  tail,       \* List.tail
  pc,         \* the line the caller is at; "idle" between two calls
  new_head,   \* the local new_head of push_front and of pop_front
  old_head,   \* the local old_head of push_front and of pop_front
  ret,        \* what the last pop_front returned
  op,         \* the last method called
  pushed,     \* history: the values pushed and not yet popped, newest first
  \* silly1.rs
  list,       \* List { left, right }
  fop,        \* the last method called
  farg,       \* its argument, 0 when it has none
  fret,       \* what it returned
  walk,       \* the caller's `while list.go_left() {}` loop, and its history
  trip,       \* history: the pushes, steps and pops since the deque was empty
  sdrop,      \* the drop of the deque: Stack's drop loop, and its history
  \* fifth.rs
  qheap,      \* address -> the Box<Node> allocated there
  qhead,      \* List.head
  qtail,      \* List.tail, a raw pointer
  qop,        \* the last method called
  qret,       \* what the last pop returned
  qlog,       \* history: the values pushed and not yet popped, oldest first
  qub,        \* a dangling tail has been written through
  qdrained,   \* history: a pop has emptied the queue
  \* third_with_arc.rs
  anodes,     \* address -> the ArcInner<Node> allocated there
  alists,     \* the List values the program holds, by head
  aop,        \* the last method called, its receiver and its result
  aret,       \* what the last head() or next() returned
  aiter       \* the Iter the program holds

dlvars == <<heap, head, tail, pc, new_head, old_head, ret, op, pushed>>
fvars == <<list, fop, farg, fret, walk, trip, sdrop>>
qvars == <<qheap, qhead, qtail, qop, qret, qlog, qub, qdrained>>
pvars == <<anodes, alists, aop, aret, aiter>>
vars == <<heap, head, tail, pc, new_head, old_head, ret, op, pushed,
          list, fop, farg, fret, walk, trip, sdrop,
          qheap, qhead, qtail, qop, qret, qlog, qub, qdrained,
          anodes, alists, aop, aret, aiter>>

\* What the calls on one list leave alone: the other lists.
notDL == <<fvars, qvars, pvars>>
notFinger == <<dlvars, qvars, pvars>>
notQueue == <<dlvars, fvars, pvars>>
notArc == <<dlvars, fvars, qvars>>

\* ===================================================================
\* fourth.rs: the doubly-linked list
\* ===================================================================

\* A slot of the heap that holds no node.
FreeSlot ==
  [alloc |-> FALSE, elem |-> 0, next |-> NoNode, prev |-> NoNode,
   strong |-> 0, borrowed |-> FALSE]

\* Node::new(elem): Rc::new(RefCell::new(Node { elem, next: None, prev: None })).
Node_new(elem) ==
  [alloc |-> TRUE, elem |-> elem, next |-> NoNode, prev |-> NoNode,
   strong |-> 1, borrowed |-> FALSE]

\* List::new().
List_new == [head |-> NoNode, tail |-> NoNode]

\* Rc::clone: one more strong reference to the node at n.
Rc_clone(h, n) == [h EXCEPT ![n].strong = @ + 1]

\* Dropping a Link: Rc's drop takes one strong reference away; the last one
\* drops the Node (its next, then its prev) and frees the slot.
RECURSIVE Link_drop(_, _)
Link_drop(h, n) ==
  IF n = NoNode \/ ~h[n].alloc \/ h[n].strong = 0 THEN h
  ELSE IF h[n].strong > 1 THEN [h EXCEPT ![n].strong = @ - 1]
  ELSE LET h1 == [h EXCEPT ![n].strong = 0]
           h2 == Link_drop(h1, h[n].next)
           h3 == Link_drop(h2, h[n].prev)
       IN  [h3 EXCEPT ![n] = FreeSlot]

\* RefCell::borrow_mut succeeds only on a cell with no outstanding borrow.
CanBorrowMut(h, n) == ~h[n].borrowed

\* The RefMut is live / has been dropped.
BorrowMut(h, n) == [h EXCEPT ![n].borrowed = TRUE]
ReleaseMut(h, n) == [h EXCEPT ![n].borrowed = FALSE]

\* Rc::try_unwrap(rc) is Ok only for the one strong reference.
CanUnwrap(h, n) == h[n].strong = 1

\* Line 68 written against the wrong node: old_head.borrow_mut().prev.take().
RelinkTargetOldHead == old_head

\* The node whose prev pop_front clears at line 68: new_head.
RelinkTarget == new_head

\* --- push_front ----------------------------------------------------

\* Lines 49 and 51: let new_head = Node::new(elem); match self.head.take().
\* The allocator may hand out any free slot.
push_front_49(elem) ==
  /\ UNCHANGED notDL
  /\ pc = "idle"
  /\ \E n \in NodeIds :
       /\ ~heap[n].alloc
       /\ heap' = [heap EXCEPT ![n] = Node_new(elem)]
       /\ new_head' = n
  /\ old_head' = head
  /\ head' = NoNode
  /\ pc' = IF head # NoNode THEN "pf53" ELSE "pf58"
  /\ op' = "push_front"
  /\ pushed' = <<elem>> \o pushed
  /\ UNCHANGED <<tail, ret>>

\* push_front without line 53: the old head gets no prev link.
push_front_53_skipped ==
  /\ UNCHANGED notDL
  /\ pc = "pf53"
  /\ pc' = "pf54"
  /\ UNCHANGED <<heap, head, tail, new_head, old_head, ret, op, pushed>>

\* Line 53 written against the wrong field: old_head.borrow_mut().next =
\* Some(new_head.clone()), which drops what next held.
push_front_53_next ==
  /\ UNCHANGED notDL
  /\ pc = "pf53"
  /\ IF CanBorrowMut(heap, old_head)
     THEN LET h1 == BorrowMut(heap, old_head)
              h2 == Rc_clone(h1, new_head)
              h3 == [h2 EXCEPT ![old_head].next = new_head]
              h4 == Link_drop(h3, h2[old_head].next)
          IN  /\ heap' = ReleaseMut(h4, old_head)
              /\ pc' = "pf54"
     ELSE /\ pc' = "panic_borrow"
          /\ UNCHANGED heap
  /\ UNCHANGED <<head, tail, new_head, old_head, ret, op, pushed>>

\* Line 53: old_head.borrow_mut().prev = Some(new_head.clone());
push_front_53 ==
  /\ UNCHANGED notDL
  /\ pc = "pf53"
  /\ IF CanBorrowMut(heap, old_head)
     THEN LET h1 == BorrowMut(heap, old_head)
              h2 == Rc_clone(h1, new_head)
              h3 == Link_drop(h2, h2[old_head].prev)
              h4 == [h3 EXCEPT ![old_head].prev = new_head]
          IN  /\ heap' = ReleaseMut(h4, old_head)
              /\ pc' = "pf54"
     ELSE /\ pc' = "panic_borrow"
          /\ UNCHANGED heap
  /\ UNCHANGED <<head, tail, new_head, old_head, ret, op, pushed>>

\* push_front without line 54: the new head gets no next link, and old_head
\* is dropped when it goes out of scope.
push_front_54_unlinked ==
  /\ UNCHANGED notDL
  /\ pc = "pf54"
  /\ heap' = Link_drop(heap, old_head)
  /\ old_head' = NoNode
  /\ pc' = "pf55"
  /\ UNCHANGED <<head, tail, new_head, ret, op, pushed>>

\* Line 54: new_head.borrow_mut().next = Some(old_head);
push_front_54 ==
  /\ UNCHANGED notDL
  /\ pc = "pf54"
  /\ IF CanBorrowMut(heap, new_head)
     THEN LET h1 == BorrowMut(heap, new_head)
              h2 == Link_drop(h1, h1[new_head].next)
              h3 == [h2 EXCEPT ![new_head].next = old_head]
          IN  /\ heap' = ReleaseMut(h3, new_head)
              /\ old_head' = NoNode
              /\ pc' = "pf55"
     ELSE /\ pc' = "panic_borrow"
          /\ UNCHANGED <<heap, old_head>>
  /\ UNCHANGED <<head, tail, new_head, ret, op, pushed>>

\* Line 55: self.head = Some(new_head);
push_front_55 ==
  /\ UNCHANGED notDL
  /\ pc = "pf55"
  /\ heap' = Link_drop(heap, head)
  /\ head' = new_head
  /\ new_head' = NoNode
  /\ pc' = "idle"
  /\ UNCHANGED <<tail, old_head, ret, op, pushed>>

\* push_front without line 58: the first node never becomes the tail.
push_front_58_no_tail ==
  /\ UNCHANGED notDL
  /\ pc = "pf58"
  /\ pc' = "pf59"
  /\ UNCHANGED <<heap, head, tail, new_head, old_head, ret, op, pushed>>

\* Line 58: self.tail = Some(new_head.clone());
push_front_58 ==
  /\ UNCHANGED notDL
  /\ pc = "pf58"
  /\ heap' = Link_drop(Rc_clone(heap, new_head), tail)
  /\ tail' = new_head
  /\ pc' = "pf59"
  /\ UNCHANGED <<head, new_head, old_head, ret, op, pushed>>

\* Line 59: self.head = Some(new_head);
push_front_59 ==
  /\ UNCHANGED notDL
  /\ pc = "pf59"
  /\ heap' = Link_drop(heap, head)
  /\ head' = new_head
  /\ new_head' = NoNode
  /\ pc' = "idle"
  /\ UNCHANGED <<tail, old_head, ret, op, pushed>>

\* --- pop_front -----------------------------------------------------

\* Line 65 written as self.head.take().unwrap(): it panics on the empty list.
pop_front_65_unwrap ==
  /\ UNCHANGED notDL
  /\ pc = "idle"
  /\ op' = "pop_front"
  /\ old_head' = head
  /\ head' = NoNode
  /\ pc' = IF head = NoNode THEN "panic_unwrap" ELSE "pp66"
  /\ UNCHANGED <<heap, tail, new_head, ret, pushed>>

\* Line 65: self.head.take().map(|old_head| ...): None maps to None.
pop_front_65 ==
  /\ UNCHANGED notDL
  /\ pc = "idle"
  /\ op' = "pop_front"
  /\ old_head' = head
  /\ head' = NoNode
  /\ IF head = NoNode
     THEN /\ ret' = None
          /\ pc' = "idle"
     ELSE /\ ret' = ret
          /\ pc' = "pp66"
  /\ UNCHANGED <<heap, tail, new_head, pushed>>

\* Line 66: match old_head.borrow_mut().next.take(). The RefMut is a temporary
\* of the scrutinee: it lives until the match ends.
pop_front_66 ==
  /\ UNCHANGED notDL
  /\ pc = "pp66"
  /\ IF CanBorrowMut(heap, old_head)
     THEN LET h1 == BorrowMut(heap, old_head)
          IN  /\ new_head' = h1[old_head].next
              /\ heap' = [h1 EXCEPT ![old_head].next = NoNode]
              /\ pc' = IF h1[old_head].next # NoNode THEN "pp68" ELSE "pp72"
     ELSE /\ pc' = "panic_borrow"
          /\ UNCHANGED <<heap, new_head>>
  /\ UNCHANGED <<head, tail, old_head, ret, op, pushed>>

\* Line 68: new_head.borrow_mut().prev.take();
pop_front_68 ==
  /\ UNCHANGED notDL
  /\ pc = "pp68"
  /\ IF CanBorrowMut(heap, RelinkTarget)
     THEN LET t == RelinkTarget
              h1 == BorrowMut(heap, t)
              taken == h1[t].prev
              h2 == [h1 EXCEPT ![t].prev = NoNode]
              h3 == Link_drop(h2, taken)
          IN  /\ heap' = ReleaseMut(h3, t)
              /\ pc' = "pp69"
     ELSE /\ pc' = "panic_borrow"
          /\ UNCHANGED heap
  /\ UNCHANGED <<head, tail, new_head, old_head, ret, op, pushed>>

\* Line 69: self.head = Some(new_head); and the match ends (line 74).
pop_front_69 ==
  /\ UNCHANGED notDL
  /\ pc = "pp69"
  /\ heap' = ReleaseMut(Link_drop(heap, head), old_head)
  /\ head' = new_head
  /\ new_head' = NoNode
  /\ pc' = "pp75"
  /\ UNCHANGED <<tail, old_head, ret, op, pushed>>

\* pop_front without line 72: the tail link to the last node stays.
pop_front_72_keep_tail ==
  /\ UNCHANGED notDL
  /\ pc = "pp72"
  /\ heap' = ReleaseMut(heap, old_head)
  /\ pc' = "pp75"
  /\ UNCHANGED <<head, tail, new_head, old_head, ret, op, pushed>>

\* Line 72: self.tail.take(); and the match ends (line 74).
pop_front_72 ==
  /\ UNCHANGED notDL
  /\ pc = "pp72"
  /\ heap' = ReleaseMut(Link_drop(heap, tail), old_head)
  /\ tail' = NoNode
  /\ pc' = "pp75"
  /\ UNCHANGED <<head, new_head, old_head, ret, op, pushed>>

\* Line 75: Rc::try_unwrap(old_head).ok().unwrap().into_inner().elem
\* The node is moved out of its Rc: its elem is returned, its next and prev
\* are dropped and its slot is freed. A second strong reference makes
\* try_unwrap fail and unwrap panic.
pop_front_75 ==
  /\ UNCHANGED notDL
  /\ pc = "pp75"
  /\ IF CanUnwrap(heap, old_head)
     THEN LET node == heap[old_head]
              h1 == [heap EXCEPT ![old_head] = FreeSlot]
              h2 == Link_drop(h1, node.next)
          IN  /\ heap' = Link_drop(h2, node.prev)
              /\ ret' = Some(node.elem)
              /\ old_head' = NoNode
              /\ pushed' = Tail(pushed)
              /\ pc' = "idle"
     ELSE /\ pc' = "panic_unwrap"
          /\ UNCHANGED <<heap, ret, old_head, pushed>>
  /\ UNCHANGED <<head, tail, new_head, op>>

\* --- drop ----------------------------------------------------------

\* List has no Drop impl: dropping it drops its fields in declaration
\* order, head and then tail.
List_drop ==
  /\ UNCHANGED notDL
  /\ pc = "idle"
  /\ heap' = Link_drop(Link_drop(heap, head), tail)
  /\ head' = NoNode
  /\ tail' = NoNode
  /\ pc' = "dropped"
  /\ op' = "drop"
  /\ UNCHANGED <<new_head, old_head, ret, pushed>>

InitDL ==
  /\ heap = [n \in NodeIds |-> FreeSlot]
  /\ head = List_new.head
  /\ tail = List_new.tail
  /\ pc = "idle"
  /\ new_head = NoNode
  /\ old_head = NoNode
  /\ ret = None
  /\ op = "new"
  /\ pushed = <<>>

NextDL ==
  \/ \E e \in Elems : push_front_49(e)
  \/ push_front_53
  \/ push_front_54
  \/ push_front_55
  \/ push_front_58
  \/ push_front_59
  \/ pop_front_65
  \/ pop_front_66
  \/ pop_front_68
  \/ pop_front_69
  \/ pop_front_72
  \/ pop_front_75
  \/ List_drop

\* --- the list as a sequence ------------------------------------------

Reverse(s) == [i \in 1..Len(s) |-> s[Len(s) + 1 - i]]

\* The nodes met from n along next (along prev), at most fuel of them.
RECURSIVE WalkNext(_, _, _)
WalkNext(h, n, fuel) ==
  IF n = NoNode \/ fuel = 0 THEN <<>>
  ELSE <<n>> \o WalkNext(h, h[n].next, fuel - 1)

RECURSIVE WalkPrev(_, _, _)
WalkPrev(h, n, fuel) ==
  IF n = NoNode \/ fuel = 0 THEN <<>>
  ELSE <<n>> \o WalkPrev(h, h[n].prev, fuel - 1)

\* One step more than there are slots: a walk that long has met a cycle.
Forward == WalkNext(heap, head, MaxNodes + 1)
Backward == WalkPrev(heap, tail, MaxNodes + 1)
ElemsOf(walked) == [i \in 1..Len(walked) |-> heap[walked[i]].elem]
Allocated == {n \in NodeIds : heap[n].alloc}

\* --- C1 ------------------------------------------------------------
\* C1: push_front and pop_front make the list a LIFO stack: every pop_front
\* that returns gives the newest value pushed and not yet popped (None when
\* there is none), and between two calls the elements read from head along
\* next are the values pushed and not yet popped, newest first.
C1_Lifo ==
  [][ /\ (pc' = "idle" /\ op' = "pop_front" /\ pc \in {"idle", "pp75"}) =>
           /\ ret' = (IF pushed = <<>> THEN None ELSE Some(Head(pushed)))
           /\ pushed' = (IF pushed = <<>> THEN <<>> ELSE Tail(pushed))
      /\ pc' = "idle" => ElemsOf(Forward)' = pushed' ]_vars

\* A pop that returned the newer of two values, the older one still in the list.
C1_Witness ==
  /\ pc = "idle" /\ op = "pop_front"
  /\ ret = Some(2) /\ pushed = <<1>> /\ ElemsOf(Forward) = <<1>>

\* --- C2 ------------------------------------------------------------
\* C2: between two calls the list is doubly linked: head's prev and tail's
\* next are empty, n.next.prev = n and n.prev.next = n for every node that
\* has the link, and the walk back from tail is the walk from head reversed.
C2_DoublyLinked ==
  pc = "idle" =>
    /\ head # NoNode => heap[head].alloc /\ heap[head].prev = NoNode
    /\ tail # NoNode => heap[tail].alloc /\ heap[tail].next = NoNode
    /\ \A n \in Allocated :
         /\ heap[n].next # NoNode =>
              heap[heap[n].next].alloc /\ heap[heap[n].next].prev = n
         /\ heap[n].prev # NoNode =>
              heap[heap[n].prev].alloc /\ heap[heap[n].prev].next = n
    /\ Len(Forward) <= MaxNodes
    /\ Backward = Reverse(Forward)

\* A list of three nodes between two calls: its middle node has both links.
C2_Witness ==
  /\ pc = "idle"
  /\ Len(Forward) >= 3
  /\ heap[Forward[2]].next # NoNode /\ heap[Forward[2]].prev # NoNode

\* --- C3 ------------------------------------------------------------
\* C3: once the list is dropped no node remains allocated.
C3_DropReleasesAll == pc = "dropped" => Allocated = {}

\* --- C4 ------------------------------------------------------------
\* C4: no call panics on a borrow: whenever push_front or pop_front is about
\* to call borrow_mut on a node, that node has no outstanding borrow.
C4_NoAliasing ==
  /\ pc # "panic_borrow"
  /\ pc \in {"pf53", "pp66"} => CanBorrowMut(heap, old_head)
  /\ pc \in {"pf54", "pp68"} => CanBorrowMut(heap, new_head)

\* pop_front about to borrow new_head while its borrow of old_head is live.
C4_Witness ==
  /\ pc = "pp68"
  /\ heap[old_head].borrowed
  /\ new_head # old_head

\* --- C5 ------------------------------------------------------------
\* C5: pop_front on the empty list returns None at once and changes nothing:
\* head and tail stay empty and no node appears, so the list it leaves is the
\* empty list again, for the next pop_front as for the next push_front.
C5_PopEmpty ==
  [][ (pc = "idle" /\ pushed = <<>> /\ op' = "pop_front") =>
        /\ pc' = "idle" /\ ret' = None
        /\ head = NoNode /\ tail = NoNode
        /\ head' = NoNode /\ tail' = NoNode
        /\ heap' = heap /\ Allocated = {} /\ pushed' = <<>> ]_vars

\* The empty list right after a pop_front that found it empty.
C5_Witness ==
  /\ pc = "idle" /\ op = "pop_front" /\ ret = None
  /\ head = NoNode /\ tail = NoNode /\ pushed = <<>>

\* --- C6 ------------------------------------------------------------
\* C6: between two calls head is empty iff tail is empty iff the list holds
\* no element; otherwise head is the first and tail the last node of the
\* chain, the same node when there is one element.
C6_HeadTail ==
  pc = "idle" =>
    /\ (head = NoNode) <=> (tail = NoNode)
    /\ (head = NoNode) <=> (pushed = <<>>)
    /\ (head = NoNode) <=> (Allocated = {})
    /\ head # NoNode =>
         /\ heap[head].prev = NoNode
         /\ heap[tail].next = NoNode
         /\ Len(Forward) = Len(pushed)
         /\ Forward[Len(Forward)] = tail
         /\ (Len(pushed) = 1) <=> (head = tail)

\* A list popped down to one element: head and tail are the same node.
C6_Witness ==
  /\ pc = "idle" /\ op = "pop_front"
  /\ head # NoNode /\ head = tail /\ Len(pushed) = 1

\* --- C15 -----------------------------------------------------------
\* The links that hold the node at n: head, tail and every node's next and prev.
LinksTo(n) ==
  (IF head = n THEN 1 ELSE 0) + (IF tail = n THEN 1 ELSE 0)
  + Cardinality({m \in Allocated : heap[m].next = n})
  + Cardinality({m \in Allocated : heap[m].prev = n})

\* C15: when pop_front reaches Rc::try_unwrap(old_head), old_head is the one
\* strong reference to its node: neither head nor tail nor a neighbour's next
\* or prev holds it, and its own next and prev are empty; so the unwrap never
\* fails, for the last node (which was the tail too) as for any other.
C15_SoleOwnerAtUnwrap ==
  /\ pc # "panic_unwrap"
  /\ pc = "pp75" =>
       /\ old_head # NoNode /\ heap[old_head].alloc
       /\ CanUnwrap(heap, old_head)
       /\ heap[old_head].strong = 1
       /\ LinksTo(old_head) = 0
       /\ heap[old_head].next = NoNode
       /\ heap[old_head].prev = NoNode

\* pop_front about to unwrap the only node of the list, which was its tail.
C15_Witness ==
  /\ pc = "pp75"
  /\ head = NoNode /\ tail = NoNode
  /\ Allocated = {old_head}

\* --- C17 -----------------------------------------------------------
\* A step of push_front.
InPushFront ==
  \/ pc = "idle" /\ pc' \in {"pf53", "pf58"}
  \/ pc \in {"pf53", "pf54", "pf55", "pf58", "pf59"}

\* C17: no step of push_front changes a node that existed before the call,
\* but for line 53, which sets the prev of the old head to the new node: the
\* elem, next and prev of every other node, the elem and next of the old head
\* and the strong counts of all of them stay, and so does tail unless the
\* list was empty.
C17_PushFrontFrame ==
  [][ InPushFront =>
        /\ \A n \in Allocated \ {new_head} :
             /\ heap'[n].alloc
             /\ heap'[n].elem = heap[n].elem
             /\ heap'[n].next = heap[n].next
             /\ heap'[n].strong = heap[n].strong
             /\ IF pc = "pf53" /\ n = old_head
                THEN heap'[n].prev = new_head
                ELSE heap'[n].prev = heap[n].prev
        /\ pc \notin {"pf58"} => tail' = tail
        /\ pc = "pf58" => tail = NoNode /\ Allocated = {new_head} ]_vars

\* push_front has returned on a list that held two nodes before the call.
C17_Witness ==
  /\ pc = "idle" /\ op = "push_front"
  /\ Len(Forward) >= 3
  /\ heap[Forward[2]].prev = head

\* ===================================================================
\* silly1.rs: the finger deque of two stacks
\* ===================================================================

\* Stack::new().
Stack_new == [head |-> None]

\* push_node that forgets `node.next = self.head.take()`: the node becomes
\* the head with the next it came with, and the old chain is dropped.
Stack_push_node_unlinked(self, node) == [head |-> Some(node)]

\* Stack::push_node: node.next = self.head.take(); self.head = Some(node).
Stack_push_node(self, node) ==
  [head |-> Some([node EXCEPT !.next = self.head])]

\* Stack::push: a new boxed node with no next, handed to push_node.
Stack_push(self, elem) ==
  Stack_push_node(self, [elem |-> elem, next |-> None])

\* pop_node that forgets `self.head = node.next.take()`: head stays taken and
\* the rest of the chain leaves with the node.
Stack_pop_node_chain(self) ==
  IF self.head = None
  THEN [self |-> [head |-> None], ret |-> None]
  ELSE [self |-> [head |-> None], ret |-> Some(self.head[1])]

\* Stack::pop_node: self.head.take().map(|mut node| { self.head =
\* node.next.take(); node }).
Stack_pop_node(self) ==
  IF self.head = None
  THEN [self |-> [head |-> None], ret |-> None]
  ELSE LET node == self.head[1]
       IN  [self |-> [head |-> node.next],
            ret |-> Some([node EXCEPT !.next = None])]

\* Stack::pop: self.pop_node().map(|node| node.elem).
Stack_pop(self) ==
  LET r == Stack_pop_node(self)
  IN  [self |-> r.self,
       ret |-> IF r.ret = None THEN None ELSE Some(r.ret[1].elem)]

\* Stack::peek: self.head.as_ref().map(|node| &node.elem).
Stack_peek(self) ==
  IF self.head = None THEN None ELSE Some(self.head[1].elem)

\* Stack::peek_mut, and the caller storing v through the &mut T it returns.
Stack_peek_mut(self, v) ==
  IF self.head = None
  THEN [self |-> self, ret |-> None]
  ELSE [self |-> [head |-> Some([self.head[1] EXCEPT !.elem = v])],
        ret |-> Some(self.head[1].elem)]

\* List::new().
Finger_new == [left |-> Stack_new, right |-> Stack_new]

\* List::push_left, List::push_right.
push_left(l, elem) == [l EXCEPT !.left = Stack_push(@, elem)]

\* push_right that pushes on the left stack.
push_right_on_left(l, elem) == [l EXCEPT !.left = Stack_push(@, elem)]
push_right(l, elem) == [l EXCEPT !.right = Stack_push(@, elem)]

\* pop_left that falls back on the right stack when the left one is empty.
pop_left_either(l) ==
  IF l.left.head # None
  THEN LET r == Stack_pop(l.left)
       IN  [self |-> [l EXCEPT !.left = r.self], ret |-> r.ret]
  ELSE LET r == Stack_pop(l.right)
       IN  [self |-> [l EXCEPT !.right = r.self], ret |-> r.ret]

\* List::pop_left, List::pop_right.
pop_left(l) ==
  LET r == Stack_pop(l.left)
  IN  [self |-> [l EXCEPT !.left = r.self], ret |-> r.ret]

pop_right(l) ==
  LET r == Stack_pop(l.right)
  IN  [self |-> [l EXCEPT !.right = r.self], ret |-> r.ret]

\* List::peek_left, List::peek_right.
peek_left(l) == Stack_peek(l.left)
peek_right(l) == Stack_peek(l.right)

\* List::peek_left_mut, List::peek_right_mut.
peek_left_mut(l, v) ==
  LET r == Stack_peek_mut(l.left, v)
  IN  [self |-> [l EXCEPT !.left = r.self], ret |-> r.ret]

peek_right_mut(l, v) ==
  LET r == Stack_peek_mut(l.right, v)
  IN  [self |-> [l EXCEPT !.right = r.self], ret |-> r.ret]

\* go_left that reports a step whether or not a node moved.
go_left_true(l) ==
  LET r == Stack_pop_node(l.left)
  IN  IF r.ret = None
      THEN [self |-> [l EXCEPT !.left = r.self], ret |-> TRUE]
      ELSE [self |-> [left |-> r.self,
                      right |-> Stack_push_node(l.right, r.ret[1])],
            ret |-> TRUE]

\* List::go_left: self.left.pop_node().map(|node| self.right.push_node(node))
\* .is_some().
go_left(l) ==
  LET r == Stack_pop_node(l.left)
  IN  IF r.ret = None
      THEN [self |-> [l EXCEPT !.left = r.self], ret |-> FALSE]
      ELSE [self |-> [left |-> r.self,
                      right |-> Stack_push_node(l.right, r.ret[1])],
            ret |-> TRUE]

\* go_right that pushes the node back on the stack it came from.
go_right_same_side(l) ==
  LET r == Stack_pop_node(l.right)
  IN  IF r.ret = None
      THEN [self |-> [l EXCEPT !.right = r.self], ret |-> FALSE]
      ELSE [self |-> [left |-> l.left,
                      right |-> Stack_push_node(r.self, r.ret[1])],
            ret |-> TRUE]

\* List::go_right.
go_right(l) ==
  LET r == Stack_pop_node(l.right)
  IN  IF r.ret = None
      THEN [self |-> [l EXCEPT !.right = r.self], ret |-> FALSE]
      ELSE [self |-> [right |-> r.self,
                      left |-> Stack_push_node(l.left, r.ret[1])],
            ret |-> TRUE]

\* A chain of boxed nodes read from its top.
RECURSIVE ToSeq(_)
ToSeq(link) ==
  IF link = None THEN <<>> ELSE <<link[1].elem>> \o ToSeq(link[1].next)

Size(l) == Len(ToSeq(l.left.head)) + Len(ToSeq(l.right.head))

\* The caller is not inside a `while list.go_left() {}` loop.
NoWalk == [mode |-> "none", n0 |-> 0, seq0 |-> <<>>, steps |-> 0]
Calling == walk.mode \notin {"left", "right"} /\ sdrop.phase = "none"

\* The deque is not being dropped.
NoDrop ==
  [phase |-> "none", cur_link |-> None, n0 |-> 0, iters |-> 0,
   expect |-> <<>>, visited |-> <<>>, recursed |-> FALSE]

\* --- history of a round trip ----------------------------------------
\* Since the deque was last empty: elements es pushed on one side only, then
\* n of them stepped to the other side, then out popped from that side.
\* "off" is any other run of calls, "fail" a step that moved nothing while
\* pushed elements were still to step.
Fresh == [phase |-> "push", side |-> "none", es |-> <<>>, n |-> 0, out |-> <<>>]
StepOp(side) == IF side = "left" THEN "go_left" ELSE "go_right"
PopOp(side) == IF side = "left" THEN "pop_right" ELSE "pop_left"

TripNext(tr0, l0, o, a, r) ==
  LET over == \/ tr0.phase = "off"
              \/ tr0.phase = "pop" /\ Len(tr0.out) = Len(tr0.es)
      tr == IF Size(l0) = 0 /\ over THEN Fresh ELSE tr0
  IN  IF tr.phase = "fail" THEN tr
      ELSE IF o \in {"peek_left", "peek_right", "while_go_left", "while_go_right"}
      THEN tr
      ELSE IF tr.phase = "push" /\ o = "push_left" /\ tr.side \in {"none", "left"}
      THEN [tr EXCEPT !.side = "left", !.es = Append(@, a)]
      ELSE IF tr.phase = "push" /\ o = "push_right" /\ tr.side \in {"none", "right"}
      THEN [tr EXCEPT !.side = "right", !.es = Append(@, a)]
      ELSE IF tr.phase \in {"push", "step"} /\ tr.n < Len(tr.es) /\ o = StepOp(tr.side)
      THEN IF r = TRUE
           THEN [tr EXCEPT !.n = @ + 1,
                           !.phase = IF tr.n + 1 = Len(tr.es) THEN "pop" ELSE "step"]
           ELSE [tr EXCEPT !.phase = "fail"]
      ELSE IF tr.phase = "pop" /\ tr.out = <<>> /\ o = StepOp(tr.side) /\ r = FALSE
      THEN tr
      ELSE IF tr.phase = "pop" /\ Len(tr.out) < Len(tr.es) /\ o = PopOp(tr.side)
      THEN [tr EXCEPT !.out = Append(@, r)]
      ELSE [Fresh EXCEPT !.phase = "off"]

PushLeft(elem) ==
  /\ Calling /\ Size(list) < MaxLen
  /\ list' = push_left(list, elem)
  /\ fop' = "push_left" /\ farg' = elem /\ fret' = None
  /\ walk' = NoWalk
  /\ trip' = TripNext(trip, list, fop', farg', fret')
  /\ UNCHANGED <<sdrop, notFinger>>

PushRight(elem) ==
  /\ Calling /\ Size(list) < MaxLen
  /\ list' = push_right(list, elem)
  /\ fop' = "push_right" /\ farg' = elem /\ fret' = None
  /\ walk' = NoWalk
  /\ trip' = TripNext(trip, list, fop', farg', fret')
  /\ UNCHANGED <<sdrop, notFinger>>

PopLeft ==
  /\ Calling
  /\ list' = pop_left(list).self
  /\ fop' = "pop_left" /\ farg' = 0 /\ fret' = pop_left(list).ret
  /\ walk' = NoWalk
  /\ trip' = TripNext(trip, list, fop', farg', fret')
  /\ UNCHANGED <<sdrop, notFinger>>

PopRight ==
  /\ Calling
  /\ list' = pop_right(list).self
  /\ fop' = "pop_right" /\ farg' = 0 /\ fret' = pop_right(list).ret
  /\ walk' = NoWalk
  /\ trip' = TripNext(trip, list, fop', farg', fret')
  /\ UNCHANGED <<sdrop, notFinger>>

PeekLeft ==
  /\ Calling
  /\ fop' = "peek_left" /\ farg' = 0 /\ fret' = peek_left(list)
  /\ walk' = NoWalk
  /\ trip' = TripNext(trip, list, fop', farg', fret')
  /\ UNCHANGED <<list, sdrop, notFinger>>

PeekRight ==
  /\ Calling
  /\ fop' = "peek_right" /\ farg' = 0 /\ fret' = peek_right(list)
  /\ walk' = NoWalk
  /\ trip' = TripNext(trip, list, fop', farg', fret')
  /\ UNCHANGED <<list, sdrop, notFinger>>

PeekLeftMut(v) ==
  /\ Calling
  /\ list' = peek_left_mut(list, v).self
  /\ fop' = "peek_left_mut" /\ farg' = v /\ fret' = peek_left_mut(list, v).ret
  /\ walk' = NoWalk
  /\ trip' = TripNext(trip, list, fop', farg', fret')
  /\ UNCHANGED <<sdrop, notFinger>>

PeekRightMut(v) ==
  /\ Calling
  /\ list' = peek_right_mut(list, v).self
  /\ fop' = "peek_right_mut" /\ farg' = v
  /\ fret' = peek_right_mut(list, v).ret
  /\ walk' = NoWalk
  /\ trip' = TripNext(trip, list, fop', farg', fret')
  /\ UNCHANGED <<sdrop, notFinger>>

GoLeft ==
  /\ Calling
  /\ list' = go_left(list).self
  /\ fop' = "go_left" /\ farg' = 0 /\ fret' = go_left(list).ret
  /\ walk' = NoWalk
  /\ trip' = TripNext(trip, list, fop', farg', fret')
  /\ UNCHANGED <<sdrop, notFinger>>

GoRight ==
  /\ Calling
  /\ list' = go_right(list).self
  /\ fop' = "go_right" /\ farg' = 0 /\ fret' = go_right(list).ret
  /\ walk' = NoWalk
  /\ trip' = TripNext(trip, list, fop', farg', fret')
  /\ UNCHANGED <<sdrop, notFinger>>

\* The caller reaches `while list.go_left() {}` (test walk_aboot, line 156).
\* walk keeps, as history, what the loop started from and its steps so far.
WalkLeftEnter ==
  /\ Calling
  /\ walk' = [mode |-> "left", n0 |-> Len(ToSeq(list.left.head)),
              seq0 |-> Reverse(ToSeq(list.left.head)) \o ToSeq(list.right.head),
              steps |-> 0]
  /\ fop' = "while_go_left" /\ farg' = 0 /\ fret' = None
  /\ trip' = TripNext(trip, list, fop', farg', fret')
  /\ UNCHANGED <<list, sdrop, notFinger>>

\* One evaluation of the loop condition list.go_left(): true runs the empty
\* body and comes back, false leaves the loop.
WalkLeftIter ==
  /\ walk.mode = "left"
  /\ list' = go_left(list).self
  /\ fop' = "go_left" /\ farg' = 0 /\ fret' = go_left(list).ret
  /\ walk' = IF go_left(list).ret
             THEN [walk EXCEPT !.steps = @ + 1]
             ELSE [walk EXCEPT !.mode = "left_done"]
  /\ trip' = TripNext(trip, list, fop', farg', fret')
  /\ UNCHANGED <<sdrop, notFinger>>

\* The same loop to the right: `while list.go_right() {}`.
WalkRightEnter ==
  /\ Calling
  /\ walk' = [mode |-> "right", n0 |-> Len(ToSeq(list.right.head)),
              seq0 |-> Reverse(ToSeq(list.left.head)) \o ToSeq(list.right.head),
              steps |-> 0]
  /\ fop' = "while_go_right" /\ farg' = 0 /\ fret' = None
  /\ trip' = TripNext(trip, list, fop', farg', fret')
  /\ UNCHANGED <<list, sdrop, notFinger>>

WalkRightIter ==
  /\ walk.mode = "right"
  /\ list' = go_right(list).self
  /\ fop' = "go_right" /\ farg' = 0 /\ fret' = go_right(list).ret
  /\ walk' = IF go_right(list).ret
             THEN [walk EXCEPT !.steps = @ + 1]
             ELSE [walk EXCEPT !.mode = "right_done"]
  /\ trip' = TripNext(trip, list, fop', farg', fret')
  /\ UNCHANGED <<sdrop, notFinger>>

\* --- Drop for Stack ------------------------------------------------

\* Line 132: let mut cur_link = self.head.take();
Stack_drop_take(self) == [self |-> [head |-> None], cur_link |-> self.head]

\* The loop body with `cur_link = boxed_node.next.clone()`: the node is
\* released with its next still in it.
Stack_drop_iter_keep(cur_link) ==
  [cur_link |-> cur_link[1].next, released |-> cur_link[1]]

\* Lines 133 to 135, for cur_link = Some(boxed_node): cur_link =
\* boxed_node.next.take(); and boxed_node is released as the body ends.
Stack_drop_iter(cur_link) ==
  [cur_link |-> cur_link[1].next,
   released |-> [cur_link[1] EXCEPT !.next = None]]

\* The deque is dropped: List has no Drop of its own, so its fields are
\* dropped in order, left first. Stack::drop starts on left (line 132).
FingerDropLeft ==
  /\ Calling
  /\ list' = [list EXCEPT !.left = Stack_drop_take(list.left).self]
  /\ sdrop' = [phase |-> "left",
               cur_link |-> Stack_drop_take(list.left).cur_link,
               n0 |-> Len(ToSeq(list.left.head)), iters |-> 0,
               expect |-> ToSeq(list.left.head), visited |-> <<>>,
               recursed |-> FALSE]
  /\ fop' = "drop" /\ farg' = 0 /\ fret' = None
  /\ walk' = NoWalk
  /\ trip' = [Fresh EXCEPT !.phase = "off"]
  /\ UNCHANGED notFinger

\* One test of `while let Some(mut boxed_node) = cur_link` and, when it
\* matches, one run of the body. Releasing a node whose next is not empty
\* releases the rest of the chain from inside that release.
StackDropIter ==
  /\ sdrop.phase \in {"left", "right"}
  /\ IF sdrop.cur_link # None
     THEN LET r == Stack_drop_iter(sdrop.cur_link)
          IN  sdrop' = [sdrop EXCEPT
                          !.cur_link = r.cur_link,
                          !.iters = @ + 1,
                          !.visited = Append(@, r.released.elem),
                          !.recursed = @ \/ r.released.next # None]
     ELSE sdrop' = [sdrop EXCEPT
                      !.phase = IF @ = "left" THEN "left_done" ELSE "done"]
  /\ UNCHANGED <<list, fop, farg, fret, walk, trip, notFinger>>

\* Stack::drop starts on right (line 132).
FingerDropRight ==
  /\ sdrop.phase = "left_done"
  /\ list' = [list EXCEPT !.right = Stack_drop_take(list.right).self]
  /\ sdrop' = [phase |-> "right",
               cur_link |-> Stack_drop_take(list.right).cur_link,
               n0 |-> Len(ToSeq(list.right.head)), iters |-> 0,
               expect |-> ToSeq(list.right.head), visited |-> <<>>,
               recursed |-> FALSE]
  /\ UNCHANGED <<fop, farg, fret, walk, trip, notFinger>>

InitFinger ==
  /\ list = Finger_new
  /\ fop = "new"
  /\ farg = 0
  /\ fret = None
  /\ walk = NoWalk
  /\ trip = Fresh
  /\ sdrop = NoDrop

\* ===================================================================
\* fifth.rs: the queue with a raw tail pointer
\* ===================================================================

\* An address that holds no node, and the null pointer.
QFree == [alloc |-> FALSE, elem |-> 0, next |-> NoNode]
Null == 0

\* List::new(): List { head: None, tail: ptr::null_mut() }. A queue is its
\* two fields with the memory its nodes are in.
Queue_new ==
  [heap |-> [n \in NodeIds |-> QFree], head |-> NoNode, tail |-> Null,
   ub |-> FALSE]

\* Dropping a Link: the Box frees its node after dropping the node's next.
RECURSIVE Box_drop(_, _)
Box_drop(h, a) ==
  IF a = NoNode \/ ~h[a].alloc THEN h
  ELSE Box_drop([h EXCEPT ![a] = QFree], h[a].next)

\* What a write of Some(Box at a) into freed memory can leave behind: the Box
\* is never dropped, or the allocator reclaims the address.
UBOutcomes == {"leaked", "reclaimed"}
StaleWrite(h, a, o) == IF o = "leaked" THEN h ELSE [h EXCEPT ![a] = QFree]

\* push without line 76: tail is never set.
Queue_push_no_tail(q, a, elem, o) ==
  LET h1 == [q.heap EXCEPT ![a] = [alloc |-> TRUE, elem |-> elem, next |-> NoNode]]
  IN  IF q.tail # Null
      THEN IF h1[q.tail].alloc
           THEN [q EXCEPT !.heap = [Box_drop(h1, h1[q.tail].next)
                                      EXCEPT ![q.tail].next = a]]
           ELSE [q EXCEPT !.heap = StaleWrite(h1, a, o), !.ub = TRUE]
      ELSE [q EXCEPT !.heap = Box_drop(h1, q.head), !.head = a]

\* List::push, the new node boxed at address a (any free one).
\* Line 70 writes through the raw tail: into the node at that address when
\* there is one; when the address has been freed the write is undefined: ub
\* records it and o is the outcome the build produced.
Queue_push(q, a, elem, o) ==
  LET h1 == [q.heap EXCEPT ![a] = [alloc |-> TRUE, elem |-> elem, next |-> NoNode]]
      raw_tail == a
  IN  IF q.tail # Null
      THEN IF h1[q.tail].alloc
           THEN [q EXCEPT !.heap = [Box_drop(h1, h1[q.tail].next)
                                      EXCEPT ![q.tail].next = a],
                          !.tail = raw_tail]
           ELSE [q EXCEPT !.heap = StaleWrite(h1, a, o), !.ub = TRUE,
                          !.tail = raw_tail]
      ELSE [q EXCEPT !.heap = Box_drop(h1, q.head), !.head = a,
                     !.tail = raw_tail]

\* pop without lines 86 to 88: tail keeps pointing at the node popped last.
Queue_pop_keep_tail(q) ==
  IF q.head = NoNode
  THEN [self |-> q, ret |-> None]
  ELSE LET head_node == q.heap[q.head]
       IN  [self |-> [q EXCEPT !.heap[q.head] = QFree,
                               !.head = head_node.next],
            ret |-> Some(head_node.elem)]

\* List::pop: the head node is moved out of its Box (which is freed), its
\* next becomes head, and tail is reset when that leaves no head.
Queue_pop(q) ==
  IF q.head = NoNode
  THEN [self |-> q, ret |-> None]
  ELSE LET head_node == q.heap[q.head]
       IN  [self |-> [q EXCEPT !.heap[q.head] = QFree,
                               !.head = head_node.next,
                               !.tail = IF head_node.next = NoNode
                                        THEN Null ELSE q.tail],
            ret |-> Some(head_node.elem)]

Queue == [heap |-> qheap, head |-> qhead, tail |-> qtail, ub |-> qub]

QPush(elem) ==
  /\ \E a \in NodeIds, o \in UBOutcomes :
       /\ ~qheap[a].alloc
       /\ LET q == Queue_push(Queue, a, elem, o)
          IN  /\ qheap' = q.heap
              /\ qhead' = q.head
              /\ qtail' = q.tail
              /\ qub' = q.ub
  /\ qop' = "push"
  /\ qlog' = Append(qlog, elem)
  /\ UNCHANGED <<qret, qdrained, notQueue>>

QPop ==
  /\ LET r == Queue_pop(Queue)
     IN  /\ qheap' = r.self.heap
         /\ qhead' = r.self.head
         /\ qtail' = r.self.tail
         /\ qub' = r.self.ub
         /\ qret' = r.ret
         /\ qdrained' = (qdrained \/ (qhead # NoNode /\ r.self.head = NoNode))
  /\ qop' = "pop"
  /\ qlog' = IF qlog = <<>> THEN <<>> ELSE Tail(qlog)
  /\ UNCHANGED notQueue

InitQueue ==
  /\ qheap = Queue_new.heap
  /\ qhead = Queue_new.head
  /\ qtail = Queue_new.tail
  /\ qub = Queue_new.ub
  /\ qop = "new"
  /\ qret = None
  /\ qlog = <<>>
  /\ qdrained = FALSE

NextQueue ==
  \/ \E e \in Elems : QPush(e)
  \/ QPop

\* The nodes met from head along next, and their elements.
RECURSIVE QWalk(_, _, _)
QWalk(h, a, fuel) ==
  IF a = NoNode \/ fuel = 0 \/ ~h[a].alloc THEN <<>>
  ELSE <<a>> \o QWalk(h, h[a].next, fuel - 1)

QNodes == QWalk(qheap, qhead, MaxNodes + 1)
QElems == [i \in 1..Len(QNodes) |-> qheap[QNodes[i]].elem]

\* --- C12 -----------------------------------------------------------
\* C12: the queue is first in, first out: every pop returns the oldest value
\* pushed and not yet popped, and None exactly when there is none; after
\* every call the elements read from head are those values, oldest first.
C12_Fifo ==
  [][ /\ qop' = "pop" =>
            /\ qret' = (IF qlog = <<>> THEN None ELSE Some(Head(qlog)))
            /\ (qret' = None) <=> (qhead = NoNode)
      /\ QElems' = qlog' ]_vars

\* After the queue was drained and filled again with two values, a pop has
\* returned the older one.
C12_Witness ==
  /\ qdrained /\ qop = "pop"
  /\ qret = Some(1) /\ qlog = <<2>> /\ QElems = <<2>>

\* --- C16 -----------------------------------------------------------
\* C16: after every call tail is null iff head is None; a tail that is not
\* null points at the last node of the chain from head, an allocated node
\* whose next is None; and no push has written through a dangling tail.
C16_TailTracksLast ==
  /\ ~qub
  /\ (qtail = Null) <=> (qhead = NoNode)
  /\ qtail # Null =>
       /\ qheap[qtail].alloc
       /\ qheap[qtail].next = NoNode
       /\ Len(QNodes) <= MaxNodes
       /\ QNodes[Len(QNodes)] = qtail

\* A push right after a pop emptied the queue: head and tail are the new node.
C16_Witness ==
  /\ qdrained /\ qop = "push"
  /\ qhead # NoNode /\ qhead = qtail
  /\ Len(qlog) = 1

\* ===================================================================
\* third_with_arc.rs: the persistent list whose nodes are shared by Arc
\* ===================================================================

\* How many List values the program holds at once.
MaxLists == 2

\* An address that holds no node; no Iter; the call of List::new().
AFree == [alloc |-> FALSE, elem |-> 0, next |-> NoNode, strong |-> 0]
NoIter == [live |-> FALSE, list |-> NoNode, next |-> NoNode, calls |-> 0]
NoCall == [name |-> "new", self |-> NoNode, out |-> NoNode, elem |-> 0]

\* A List is its head field: List::new() is List { head: None }.
AList_new == NoNode

\* Link::clone(): one more strong reference to the node, if there is one.
Arc_clone(h, a) ==
  IF a = NoNode THEN h ELSE [h EXCEPT ![a].strong = @ + 1]

\* append that links nothing behind the new node.
AList_append_alone(h, self, a, elem) ==
  [heap |-> [h EXCEPT ![a] = [alloc |-> TRUE, elem |-> elem,
                              next |-> NoNode, strong |-> 1]],
   list |-> a]

\* List::append: Arc::new at address a of a node whose next is a clone of
\* the receiver's head.
AList_append(h, self, a, elem) ==
  [heap |-> [Arc_clone(h, self)
               EXCEPT ![a] = [alloc |-> TRUE, elem |-> elem,
                              next |-> self, strong |-> 1]],
   list |-> a]

\* List::tail: a clone of the first node's next, None for the empty list.
AList_tail(h, self) ==
  LET link == IF self = NoNode THEN NoNode ELSE h[self].next
  IN  [heap |-> Arc_clone(h, link), list |-> link]

\* List::head.
AList_head(h, self) ==
  IF self = NoNode THEN None ELSE Some(h[self].elem)

\* List::iter: Iter { next: self.head.as_deref() }.
AList_iter(self) == self

\* next() that does not move on.
AIter_next_stuck(h, next) ==
  IF next = NoNode THEN [next |-> NoNode, ret |-> None]
  ELSE [next |-> next, ret |-> Some(h[next].elem)]

\* Iter::next.
AIter_next(h, next) ==
  IF next = NoNode THEN [next |-> NoNode, ret |-> None]
  ELSE [next |-> h[next].next, ret |-> Some(h[next].elem)]

\* The drop loop without its break: every node of the chain is released.
RECURSIVE AList_drop_all(_, _)
AList_drop_all(h, node) ==
  IF node = NoNode \/ ~h[node].alloc THEN h
  ELSE AList_drop_all([h EXCEPT ![node] = AFree], h[node].next)

\* Drop for List, from the head taken at line 69: Arc::try_unwrap is Ok for
\* the only strong reference, the node is freed and the loop goes on with its
\* next; otherwise the Arc given back is dropped and the loop breaks.
RECURSIVE AList_drop(_, _)
AList_drop(h, node) ==
  IF node = NoNode THEN h
  ELSE IF h[node].strong = 1
       THEN AList_drop([h EXCEPT ![node] = AFree], h[node].next)
       ELSE [h EXCEPT ![node].strong = @ - 1]

\* The nodes met from a head along next, and the sequence they represent.
RECURSIVE AWalk(_, _, _)
AWalk(h, a, fuel) ==
  IF a = NoNode \/ fuel = 0 \/ ~h[a].alloc THEN <<>>
  ELSE <<a>> \o AWalk(h, h[a].next, fuel - 1)

ANodesOf(h, a) == AWalk(h, a, MaxNodes + 1)
RECURSIVE AElems(_, _, _)
AElems(h, a, fuel) ==
  IF a = NoNode \/ fuel = 0 \/ ~h[a].alloc THEN <<>>
  ELSE <<h[a].elem>> \o AElems(h, h[a].next, fuel - 1)
ASeqOf(h, a) == AElems(h, a, MaxNodes + 1)
ASeq(l) == ASeqOf(anodes, l)

\* The Lists the program holds, as a bag of their heads: two Lists with the
\* same head differ in nothing a call can observe.
Holds(l) == BagIn(l, alists)
Room == BagCardinality(alists) < MaxLists
One(l) == SetToBag({l})

ANew ==
  /\ Room
  /\ alists' = alists (+) One(AList_new)
  /\ aop' = NoCall
  /\ aret' = None
  /\ aiter' = NoIter
  /\ UNCHANGED <<anodes, notArc>>

AAppend(l, elem) ==
  /\ Holds(l) /\ Room
  /\ \E a \in NodeIds :
       /\ ~anodes[a].alloc
       /\ LET r == AList_append(anodes, l, a, elem)
          IN  /\ anodes' = r.heap
              /\ alists' = alists (+) One(r.list)
              /\ aop' = [name |-> "append", self |-> l, out |-> r.list,
                         elem |-> elem]
  /\ aret' = None
  /\ aiter' = NoIter
  /\ UNCHANGED notArc

ATail(l) ==
  /\ Holds(l) /\ Room
  /\ LET r == AList_tail(anodes, l)
     IN  /\ anodes' = r.heap
         /\ alists' = alists (+) One(r.list)
         /\ aop' = [name |-> "tail", self |-> l, out |-> r.list, elem |-> 0]
  /\ aret' = None
  /\ aiter' = NoIter
  /\ UNCHANGED notArc

AHead(l) ==
  /\ Holds(l)
  /\ aret' = AList_head(anodes, l)
  /\ aop' = [name |-> "head", self |-> l, out |-> NoNode, elem |-> 0]
  /\ aiter' = NoIter
  /\ UNCHANGED <<anodes, alists, notArc>>

\* list.iter(). An iteration runs without another call in between: an Iter
\* is not used again after any call but its own next().
AIterate(l) ==
  /\ Holds(l)
  /\ aiter' = [live |-> TRUE, list |-> l, next |-> AList_iter(l), calls |-> 0]
  /\ aop' = [name |-> "iter", self |-> l, out |-> NoNode, elem |-> 0]
  /\ aret' = None
  /\ UNCHANGED <<anodes, alists, notArc>>

\* iter.next(); calls counts them, up to two past the end of the list.
AIterNext ==
  /\ aiter.live
  /\ aiter.calls <= Len(ANodesOf(anodes, aiter.list)) + 1
  /\ LET r == AIter_next(anodes, aiter.next)
     IN  /\ aiter' = [aiter EXCEPT !.next = r.next, !.calls = @ + 1]
         /\ aret' = r.ret
  /\ aop' = [name |-> "next", self |-> aiter.list, out |-> NoNode, elem |-> 0]
  /\ UNCHANGED <<anodes, alists, notArc>>

\* A List with head l goes out of scope.
ADrop(l) ==
  /\ Holds(l)
  /\ anodes' = AList_drop(anodes, l)
  /\ alists' = alists (-) One(l)
  /\ aiter' = NoIter
  /\ aop' = [name |-> "drop", self |-> l, out |-> NoNode, elem |-> 0]
  /\ aret' = None
  /\ UNCHANGED notArc

InitArc ==
  /\ anodes = [n \in NodeIds |-> AFree]
  /\ alists = One(AList_new)
  /\ aop = NoCall
  /\ aret = None
  /\ aiter = NoIter

Heads == {NoNode} \cup NodeIds

\* The calls on Lists alone, without iteration.
NextArcLists ==
  \/ ANew
  \/ \E l \in Heads, e \in Elems : AAppend(l, e)
  \/ \E l \in Heads : ATail(l)
  \/ \E l \in Heads : AHead(l)
  \/ \E l \in Heads : ADrop(l)

NextArc ==
  \/ ANew
  \/ \E l \in Heads, e \in Elems : AAppend(l, e)
  \/ \E l \in Heads : ATail(l)
  \/ \E l \in Heads : AHead(l)
  \/ \E l \in Heads : AIterate(l)
  \/ AIterNext
  \/ \E l \in Heads : ADrop(l)

\* The nodes of heap h that the Lists of a bag reach, and the allocated ones.
RECURSIVE AReachFrom(_, _, _)
AReachFrom(h, a, fuel) ==
  IF a = NoNode \/ fuel = 0 \/ ~h[a].alloc THEN {}
  ELSE {a} \cup AReachFrom(h, h[a].next, fuel - 1)
AReach(h, lists) ==
  UNION {AReachFrom(h, l, MaxNodes + 1) : l \in BagToSet(lists)}
AAlloc(h) == {n \in NodeIds : h[n].alloc}

\* Between heap h and the heap hh after a drop, the chain from a has lost a
\* prefix and no more: the first node kept had another strong reference in
\* h, and the chain from it on is the same.
RECURSIVE AFreedPrefix(_, _, _, _)
AFreedPrefix(h, hh, a, fuel) ==
  IF a = NoNode \/ fuel = 0 THEN TRUE
  ELSE IF hh[a].alloc
       THEN /\ h[a].strong > 1
            /\ AReachFrom(h, a, fuel) = AReachFrom(hh, a, fuel)
       ELSE AFreedPrefix(h, hh, h[a].next, fuel - 1)

\* --- C13 -----------------------------------------------------------
\* C13: s.append(x) returns a list that represents x followed by s; s.head()
\* returns the first element of s, None for the empty list; s.tail() returns
\* a list that represents s without its first element, and the empty list
\* for the empty list.
C13_AppendHeadTail ==
  [][ /\ aop'.name = "append" =>
            ASeqOf(anodes', aop'.out) = <<aop'.elem>> \o ASeq(aop'.self)
      /\ aop'.name = "head" =>
            aret' = (IF ASeq(aop'.self) = <<>> THEN None
                     ELSE Some(Head(ASeq(aop'.self))))
      /\ aop'.name = "tail" =>
            ASeqOf(anodes', aop'.out) =
              (IF ASeq(aop'.self) = <<>> THEN <<>> ELSE Tail(ASeq(aop'.self)))
    ]_vars

\* tail() of a list built by append(1) then append(2) has returned <<1>>.
C13_Witness ==
  /\ aop.name = "tail"
  /\ Holds(aop.self) /\ Holds(aop.out)
  /\ ASeq(aop.self) = <<2, 1>>
  /\ ASeq(aop.out) = <<1>>

\* The tail of the empty list has been taken and is empty.
C13_WitnessEmpty ==
  /\ aop.name = "tail" /\ aop.self = NoNode /\ aop.out = NoNode
  /\ BagCardinality(alists) = 2

\* --- C14 -----------------------------------------------------------
\* C14: the k-th call of next() on an iterator over a list returns its k-th
\* element from the head, and None once k is past its length; iter() and
\* next() change no node and no list.
C14_Iter ==
  [][ /\ aop'.name = "next" =>
            LET s == ASeq(aop'.self)
                k == aiter'.calls
            IN  aret' = (IF k <= Len(s) THEN Some(s[k]) ELSE None)
      /\ aop'.name \in {"iter", "next"} =>
            /\ anodes' = anodes
            /\ alists' = alists
    ]_vars

\* The second call of next() past the end of a list of three has returned None.
C14_Witness ==
  /\ aop.name = "next" /\ aiter.live
  /\ ASeq(aiter.list) = <<2, 1, 2>>
  /\ aiter.calls = Len(ASeq(aiter.list)) + 2
  /\ aret = None

\* --- C18 -----------------------------------------------------------
\* C18: a drop frees exactly the nodes that no List still held reaches: a
\* prefix of the dropped list's chain, ending before the first node that had
\* another strong reference; every List still held represents the sequence
\* it did; append and tail leave the sequence of every List held unchanged;
\* after each of these calls the allocated nodes are those the Lists held
\* reach, so none is left once every List is dropped.
C18_Drop ==
  [][ /\ aop'.name = "drop" =>
            /\ AAlloc(anodes') = AReach(anodes, alists')
            /\ AAlloc(anodes') = AReach(anodes', alists')
            /\ alists' = EmptyBag => AAlloc(anodes') = {}
            /\ AFreedPrefix(anodes, anodes', aop'.self, MaxNodes + 1)
            /\ \A l \in BagToSet(alists') : ASeqOf(anodes', l) = ASeq(l)
      /\ aop'.name \in {"append", "tail"} =>
            /\ \A l \in BagToSet(alists) : ASeqOf(anodes', l) = ASeq(l)
            /\ AAlloc(anodes') = AReach(anodes', alists')
    ]_vars

\* A list of two nodes has been dropped while its tail was held: its head
\* node is freed and the node shared with the tail is kept.
C18_Witness ==
  /\ aop.name = "drop" /\ aop.self # NoNode
  /\ ~anodes[aop.self].alloc
  /\ BagCardinality(alists) = 1
  /\ \E l \in BagToSet(alists) :
       /\ ASeq(l) = <<1>>
       /\ anodes[l].strong = 1
       /\ AAlloc(anodes) = {l}

\* Every List has been dropped after nodes were allocated.
C18_WitnessAllDropped ==
  /\ aop.name = "drop" /\ aop.self # NoNode
  /\ alists = EmptyBag


NextFinger ==
  \/ \E e \in Elems : PushLeft(e)
  \/ \E e \in Elems : PushRight(e)
  \/ PopLeft
  \/ PopRight
  \/ PeekLeft
  \/ PeekRight
  \/ \E v \in Elems : PeekLeftMut(v)
  \/ \E v \in Elems : PeekRightMut(v)
  \/ GoLeft
  \/ GoRight
  \/ WalkLeftEnter
  \/ WalkLeftIter
  \/ WalkRightEnter
  \/ WalkRightIter
  \/ FingerDropLeft
  \/ StackDropIter
  \/ FingerDropRight

\* --- the deque as a sequence and a cursor ---------------------------

\* The logical sequence: left read from its top reversed, then right read
\* from its top. The cursor stands after the elements of left.
Logical(l) == Reverse(ToSeq(l.left.head)) \o ToSeq(l.right.head)
Cursor(l) == Len(ToSeq(l.left.head))

\* s with e put after its first i elements; s without its i-th element.
InsertAt(s, i, e) == SubSeq(s, 1, i) \o <<e>> \o SubSeq(s, i + 1, Len(s))
RemoveAt(s, i) == SubSeq(s, 1, i - 1) \o SubSeq(s, i + 1, Len(s))

\* --- C7 ------------------------------------------------------------
\* C7: every call refines the (sequence, cursor) deque: push_left and
\* push_right put the element just left and just right of the cursor,
\* pop_left and pop_right take the element just left and just right of it
\* (None when there is none), and go_left and go_right move the cursor by one
\* (not at all at the end) and leave the sequence as it is.
C7_Refines ==
  [][ LET s == Logical(list)
          c == Cursor(list)
          s2 == Logical(list')
          c2 == Cursor(list')
      IN  /\ fop' = "push_left" =>
                s2 = InsertAt(s, c, farg') /\ c2 = c + 1
          /\ fop' = "push_right" =>
                s2 = InsertAt(s, c, farg') /\ c2 = c
          /\ fop' = "pop_left" =>
                IF c = 0
                THEN fret' = None /\ s2 = s /\ c2 = c
                ELSE fret' = Some(s[c]) /\ s2 = RemoveAt(s, c) /\ c2 = c - 1
          /\ fop' = "pop_right" =>
                IF c = Len(s)
                THEN fret' = None /\ s2 = s /\ c2 = c
                ELSE fret' = Some(s[c + 1]) /\ s2 = RemoveAt(s, c + 1) /\ c2 = c
          /\ fop' = "go_left" =>
                IF c = 0
                THEN fret' = FALSE /\ s2 = s /\ c2 = c
                ELSE fret' = TRUE /\ s2 = s /\ c2 = c - 1
          /\ fop' = "go_right" =>
                IF c = Len(s)
                THEN fret' = FALSE /\ s2 = s /\ c2 = c
                ELSE fret' = TRUE /\ s2 = s /\ c2 = c + 1 ]_vars

\* A go_left that moved the cursor, with elements left on both sides of it.
C7_Witness ==
  /\ fop = "go_left" /\ walk.mode = "none"
  /\ fret = TRUE
  /\ Cursor(list) >= 1
  /\ Len(Logical(list)) - Cursor(list) >= 2

\* --- C8 ------------------------------------------------------------
\* C8: `while list.go_left() {}` ends, after as many steps as left held
\* elements; then left is empty (pop_left gives None) and right, read from its
\* top, is the whole logical sequence the loop started from, so pop_right
\* gives its first and then its second element. The same to the right.
C8_WalkToTheEnd ==
  /\ [](walk.mode = "left_done" =>
          /\ walk.steps = walk.n0
          /\ list.left.head = None
          /\ pop_left(list).ret = None
          /\ ToSeq(list.right.head) = walk.seq0
          /\ walk.seq0 # <<>> =>
               /\ peek_right(list) = Some(walk.seq0[1])
               /\ pop_right(list).ret = Some(walk.seq0[1])
          /\ Len(walk.seq0) >= 2 =>
               pop_right(pop_right(list).self).ret = Some(walk.seq0[2]))
  /\ [](walk.mode = "right_done" =>
          /\ walk.steps = walk.n0
          /\ list.right.head = None
          /\ pop_right(list).ret = None
          /\ Reverse(ToSeq(list.left.head)) = walk.seq0
          /\ walk.seq0 # <<>> =>
               /\ peek_left(list) = Some(walk.seq0[Len(walk.seq0)])
               /\ pop_left(list).ret = Some(walk.seq0[Len(walk.seq0)])
          /\ Len(walk.seq0) >= 2 =>
               pop_left(pop_left(list).self).ret =
                 Some(walk.seq0[Len(walk.seq0) - 1]))
  /\ (walk.mode = "left" ~> walk.mode = "left_done")
  /\ (walk.mode = "right" ~> walk.mode = "right_done")

\* The loop has ended after two steps or more, with elements that were on
\* the right before it started.
C8_Witness ==
  /\ walk.mode = "left_done"
  /\ walk.n0 >= 2 /\ walk.steps >= 2
  /\ Len(walk.seq0) > walk.n0

\* --- C9 ------------------------------------------------------------
\* C9: a pop touches its own side only: pop_left leaves right as it is and
\* pop_right leaves left as it is, and a pop on an empty side returns None
\* and leaves that side empty, whatever the other side holds.
C9_PopOneSide ==
  [][ /\ fop' = "pop_left" =>
            /\ list'.right = list.right
            /\ list.left.head = None =>
                 fret' = None /\ list'.left.head = None
      /\ fop' = "pop_right" =>
            /\ list'.left = list.left
            /\ list.right.head = None =>
                 fret' = None /\ list'.right.head = None ]_vars

\* pop_left has returned None while right holds elements.
C9_Witness ==
  /\ fop = "pop_left" /\ fret = None
  /\ list.left.head = None /\ list.right.head # None

\* --- C10 -----------------------------------------------------------
\* C10: go_left returns false exactly when left is empty and go_right
\* exactly when right is empty, and a step that returns false leaves both
\* stacks as they were.
C10_FalseStep ==
  [][ /\ fop' = "go_left" =>
            /\ (fret' = FALSE) <=> (list.left.head = None)
            /\ fret' = FALSE => list' = list
      /\ fop' = "go_right" =>
            /\ (fret' = FALSE) <=> (list.right.head = None)
            /\ fret' = FALSE => list' = list ]_vars

\* go_left has returned false while right holds elements.
C10_Witness ==
  /\ fop = "go_left" /\ walk.mode = "none"
  /\ fret = FALSE
  /\ list.left.head = None /\ list.right.head # None

\* --- C11 -----------------------------------------------------------
\* The stack the elements of a round trip were pushed on, and the other one.
TripFrom == IF trip.side = "left" THEN list.left ELSE list.right
TripTo == IF trip.side = "left" THEN list.right ELSE list.left

\* C11: from the empty deque, k elements pushed on one side and then stepped
\* to the other side: each of the k steps moves a node, then the side pushed
\* to is empty, the other side read from its top is e1..ek, and popping it
\* returns e1, e2, ... in push order until both sides are empty.
C11_RoundTrip ==
  /\ trip.phase # "fail"
  /\ trip.phase = "step" =>
       Len(ToSeq(TripFrom.head)) + trip.n = Len(trip.es)
  /\ trip.phase = "pop" =>
       /\ trip.n = Len(trip.es)
       /\ TripFrom.head = None
       /\ Len(trip.out) <= Len(trip.es)
       /\ \A i \in 1..Len(trip.out) : trip.out[i] = Some(trip.es[i])
       /\ ToSeq(TripTo.head) = SubSeq(trip.es, Len(trip.out) + 1, Len(trip.es))

\* Three elements, the first two different, pushed on the left, stepped to
\* the right and all popped there.
C11_Witness ==
  /\ trip.phase = "pop" /\ trip.side = "left"
  /\ Len(trip.es) >= 3 /\ trip.es[1] # trip.es[2]
  /\ Len(trip.out) = Len(trip.es)
  /\ Size(list) = 0

\* --- C19 -----------------------------------------------------------
\* C19: go_left on a non-empty left returns true, takes one node from left
\* and gives one to right, and a go_right from there returns true and gives
\* back both stacks as they were; the same for go_right and then go_left.
C19_StepsInverse ==
  [][ /\ fop' = "go_left" =>
            /\ list.left.head # None => fret' = TRUE
            /\ fret' = TRUE =>
                 /\ Len(ToSeq(list'.left.head)) = Len(ToSeq(list.left.head)) - 1
                 /\ Len(ToSeq(list'.right.head)) = Len(ToSeq(list.right.head)) + 1
                 /\ Size(list') = Size(list)
                 /\ go_right(list').ret = TRUE
                 /\ go_right(list').self = list
      /\ fop' = "go_right" =>
            /\ list.right.head # None => fret' = TRUE
            /\ fret' = TRUE =>
                 /\ Len(ToSeq(list'.right.head)) = Len(ToSeq(list.right.head)) - 1
                 /\ Len(ToSeq(list'.left.head)) = Len(ToSeq(list.left.head)) + 1
                 /\ Size(list') = Size(list)
                 /\ go_left(list').ret = TRUE
                 /\ go_left(list').self = list ]_vars

\* A go_left that moved a node, with more nodes below it on both sides.
C19_Witness ==
  /\ fop = "go_left" /\ walk.mode = "none"
  /\ fret = TRUE
  /\ Len(ToSeq(list.left.head)) >= 1
  /\ Len(ToSeq(list.right.head)) >= 2
  /\ go_right(list).ret = TRUE

\* --- C20 -----------------------------------------------------------
\* C20: Stack's drop loop ends after as many iterations as the stack has
\* nodes; it meets the nodes once each, from the top down; every node is
\* released with its next already taken, so no release reaches a successor;
\* and the head of the stack is empty from line 132 on.
C20_StackDrop ==
  /\ [](sdrop.phase \in {"left", "right"} =>
          /\ sdrop.iters + Len(ToSeq(sdrop.cur_link)) = sdrop.n0
          /\ sdrop.visited = SubSeq(sdrop.expect, 1, sdrop.iters)
          /\ ~sdrop.recursed)
  /\ [](sdrop.phase \in {"left_done", "done"} =>
          /\ sdrop.iters = sdrop.n0
          /\ sdrop.visited = sdrop.expect
          /\ ~sdrop.recursed
          /\ sdrop.cur_link = None)
  /\ [](sdrop.phase \in {"left", "left_done"} => list.left.head = None)
  /\ [](sdrop.phase \in {"right", "done"} =>
          list.left.head = None /\ list.right.head = None)
  /\ (sdrop.phase = "left" ~> sdrop.phase = "left_done")
  /\ (sdrop.phase = "right" ~> sdrop.phase = "done")

\* The drop of a stack of three nodes or more has ended.
C20_Witness ==
  /\ sdrop.phase = "left_done"
  /\ sdrop.n0 >= 3 /\ sdrop.iters = sdrop.n0
  /\ Len(sdrop.visited) >= 3

Init == InitDL /\ InitFinger /\ InitQueue /\ InitArc

\* The doubly-linked list of fourth.rs under any calls of its one caller.
Spec == Init /\ [][NextDL]_vars

\* The finger deque of silly1.rs under any calls of its one caller.
SpecFinger == Init /\ [][NextFinger]_vars

\* A caller inside `while list.go_left() {}` keeps evaluating the condition.
FairSpecFinger ==
  SpecFinger /\ WF_vars(WalkLeftIter) /\ WF_vars(WalkRightIter)

\* The queue of fifth.rs under any calls of its one caller.
SpecQueue == Init /\ [][NextQueue]_vars

\* The persistent list of third_with_arc.rs under any calls of its one caller.
SpecArc == Init /\ [][NextArc]_vars

\* The same list when the caller never iterates.
SpecArcLists == Init /\ [][NextArcLists]_vars

\* A drop that has started runs on: the loop of Stack::drop keeps iterating.
FairSpecFingerDrop == SpecFinger /\ WF_vars(StackDropIter)

=============================================================================
